---- MODULE Spec2Model ----
(***************************************************************************)
(* Model of package monitor (src/monitor/subscription.go): a NodeMonitor   *)
(* with its client-handle counter, Subscriptions with their handles and    *)
(* itemLookup indices guarded by mu, the batch mutation calls and the      *)
(* notification pump.                                                      *)
(***************************************************************************)
EXTENDS Integers, Sequences, FiniteSets, TLC

\* ------------------------------------------------------------------ bounds
\* Caller goroutines are Threads, Subscriptions of the one NodeMonitor are Subs.
Threads == {1, 2}
Subs == {1, 2}
Nodes == {"A", "B"}

\* Handles the NodeMonitor gives out in one behaviour.
MaxAlloc == 2
\* Longest argument list of one call.
MaxBatch == 2
\* Notifications the transport publishes in one behaviour.
MaxNotifs == 2
\* Most change records in one notification.
MaxRecords == 2
\* cap(s.internalNotifyCh): the notifyChanLength newSubscription is given
\* (DefaultCallbackBufferLen by Subscribe, 16 by ChanSubscribe), scaled down.
NotifyChanLength == 1
\* Capacity of the channel the caller hands to ChanSubscribe.
ConsumerCap == 1

NoThread == 0

\* The node lists callers add: the first k of A, B, A, ...
AddBatch(k) == [i \in 1..k |-> IF i % 2 = 1 THEN "A" ELSE "B"]

AddBatches == {AddBatch(k) : k \in 0..MaxBatch}

\* The node lists callers name in RemoveNodeIDs and
\* SetMonitoringModeForNodeIDs.
NodeLists == AddBatches \cup {<<"B">>}

\* nextClientHandle as NewNodeMonitor sets it.
SeedHandle == 100
\* ----------------------------------------------------------------- helpers
SeqsUpTo(S, n) == UNION {[1..k -> S] : k \in 0..n}

Range(q) == {q[i] : i \in DOMAIN q}

EmptyMap == <<>>

Put(m, k, v) == [x \in (DOMAIN m) \cup {k} |-> IF x = k THEN v ELSE m[x]]

Delete(m, k) == [x \in (DOMAIN m) \ {k} |-> m[x]]

\* type Item struct { id, nodeID, handle }
Item(id, node, handle) == [id |-> id, nodeID |-> node, handle |-> handle]

VARIABLES
    nextClientHandle,   \* NodeMonitor.nextClientHandle
    errHandlerCB,       \* NodeMonitor.errHandlerCB # nil
    handles,            \* Subscription.handles: handle -> node
    itemLookup,         \* Subscription.itemLookup: item id -> Item
    mu,                 \* Subscription.mu: the thread holding the write lock
    closed,             \* Subscription.closed has been closed
    subState,           \* the transport's subscription s.sub: "live" / "cancelled"
    serverItemID,       \* transport side: last monitored item id the server gave out
    pc,                 \* per thread: where it is in its call
    call,               \* per thread: the running call's arguments and locals
    lastCall,           \* the call that returned in the last step, if one did
    allocLog,           \* handles in the order atomic.AddUint32 returned them, each with its subscription
    panicked,           \* "none", or the panic / fatal error that ended the process
    mode,               \* how pump was started: "chan" (notifyCh), "cb", or "unset" (both nil)
    ctxDone,            \* the ctx given to Subscribe / ChanSubscribe is cancelled
    internalNotifyCh,   \* Subscription.internalNotifyCh: notifications the pump has yet to take
    notifyCh,           \* the consumer's channel: messages sent and not yet received
    pump,               \* the pump goroutine: where it is, its msg, its item index, its out
    delivered,          \* Subscription.delivered
    dropped,            \* Subscription.dropped
    errLog,             \* errors handed to errHandlerCB, in the order sendError started them
    sentLog,            \* messages given to the consumer (cb calls, channel sends), in order
    drained,            \* messages the consumer has received from notifyCh
    records,            \* change records in the data-change notifications dispatched or dropped
    emitted,            \* notifications the transport has published
    handlerReturned     \* errHandlerCB goroutines started by sendError that have returned

mutVars == <<nextClientHandle, errHandlerCB, handles, itemLookup, mu, closed,
             subState, serverItemID, pc, call, lastCall,
             allocLog, panicked>>

pumpVars == <<mode, ctxDone, internalNotifyCh, notifyCh, pump, delivered,
              dropped, errLog, sentLog, drained, records, emitted,
              handlerReturned>>

vars == <<mutVars, pumpVars>>

\* ------------------------------------------------------------ call records
IdleCall ==
    [op |-> "none", s |-> 0, n |-> 0, nodes |-> <<>>, items |-> <<>>, i |-> 0,
     hs |-> <<>>, ids |-> <<>>, results |-> <<>>, ret |-> <<>>,
     preH |-> EmptyMap, preI |-> EmptyMap, rpcs |-> 0, missed |-> FALSE,
     wasClosed |-> FALSE]

NoCall ==
    [by |-> NoThread, op |-> "none", s |-> 0, n |-> 0, err |-> "nil",
     hs |-> <<>>, ret |-> <<>>, preH |-> EmptyMap, preI |-> EmptyMap,
     postH |-> EmptyMap, postI |-> EmptyMap, rpcs |-> 0, missed |-> FALSE,
     wasClosed |-> FALSE]

\* The locals of a call of op on subscription s with n arguments.
StartCall(op, s, n, nodes, items, missed) ==
    [IdleCall EXCEPT !.op = op, !.s = s, !.n = n, !.nodes = nodes,
                     !.items = items, !.i = 1, !.missed = missed]

\* Call c as it takes s.mu: what the indices and s.closed are at that moment.
Locked(c) ==
    [c EXCEPT !.preH = handles[c.s], !.preI = itemLookup[c.s],
              !.wasClosed = closed[c.s]]

NewCall(op, s, n, nodes, items, missed) ==
    Locked(StartCall(op, s, n, nodes, items, missed))

\* The record of a call that returns e with the indices of its subscription
\* being H and I at the return.
Outcome(t, c, e, H, I) ==
    [by |-> t, op |-> c.op, s |-> c.s, n |-> c.n, err |-> e,
     hs |-> c.hs, ret |-> c.ret, preH |-> c.preH, preI |-> c.preI,
     postH |-> H, postI |-> I, rpcs |-> c.rpcs, missed |-> c.missed,
     wasClosed |-> c.wasClosed]

\* return e: the deferred s.mu.Unlock() runs and the caller has the result.
Return(t, c, e, H, I) ==
    /\ pc' = [pc EXCEPT ![t] = "idle"]
    /\ call' = [call EXCEPT ![t] = IdleCall]
    /\ lastCall' = Outcome(t, c, e, H, I)
    /\ mu' = [mu EXCEPT ![c.s] = NoThread]

Running == panicked = "none"

CanCall(t) ==
    /\ Running
    /\ pc[t] = "idle"

\* func (s *Subscription) Subscribed() int
Subscribed(s) == Cardinality(DOMAIN handles[s])

\* ------------------------------------------------------- transport replies
OK == "ok"
Bad == "bad"

\* Number of OK entries among the first k of statuses st.
RECURSIVE OkUpTo(_, _)
OkUpTo(st, k) ==
    IF k = 0 THEN 0 ELSE OkUpTo(st, k - 1) + (IF st[k] = OK THEN 1 ELSE 0)

\* resp.Results of a CreateMonitoredItems reply with per-item statuses st: the
\* server numbers the items it created from base + 1.
CreateResults(st, base) ==
    [k \in DOMAIN st |->
        [StatusCode |-> st[k],
         MonitoredItemID |-> IF st[k] = OK THEN base + OkUpTo(st, k) ELSE 0]]

\* Per-item statuses of a reply for n items: all OK, or one of them not.
Statuses(n) ==
    {[k \in 1..n |-> OK]}
    \cup {[k \in 1..n |-> IF k = b THEN Bad ELSE OK] : b \in 1..n}

Reply(err, svc, results) == [err |-> err, svc |-> svc, results |-> results]

\* What s.sub.Monitor can return for n requests: a transport error, a non-OK
\* service result, a result list one short, or n per-item results. A cancelled
\* subscription only yields errors.
MonitorReplies(s, n) ==
    {Reply(TRUE, OK, <<>>), Reply(FALSE, Bad, <<>>)}
    \cup (IF subState[s] = "live"
          THEN {Reply(FALSE, OK, CreateResults(st, serverItemID[s])) :
                    st \in Statuses(n)}
               \cup {Reply(FALSE, OK, CreateResults([k \in 1..(n - 1) |-> OK],
                                                   serverItemID[s]))}
          ELSE {})

\* What Unmonitor / SetMonitoringMode can return for n item ids.
StatusReplies(s, n) ==
    {Reply(TRUE, OK, <<>>), Reply(FALSE, Bad, <<>>)}
    \cup (IF subState[s] = "live"
          THEN {Reply(FALSE, OK, st) : st \in Statuses(n)}
               \cup {Reply(FALSE, OK, [k \in 1..(n - 1) |-> OK])}
          ELSE {})

\* A load of the counter where the code adds to it: the fault that hands the
\* same handle out again, which C2 excludes.
LoadUint32(v) == v

\* --------------------------------------------------------- AddMonitorItems
\* atomic.AddUint32(&s.monitor.nextClientHandle, 1). The counter is a uint32;
\* its wrap at 2^32 lies beyond the integers TLC has and beyond MaxAlloc.
AtomicAddUint32(v) == v + 1

\* Handles the add calls under way have yet to allocate.
Pending ==
    LET T == {u \in Threads : pc[u] = "add_alloc"}
        left[u \in Threads] == Len(call[u].nodes) - call[u].i + 1
        RECURSIVE Sum(_)
        Sum(U) == IF U = {} THEN 0
                  ELSE LET u == CHOOSE x \in U : TRUE IN left[u] + Sum(U \ {u})
    IN Sum(T)

\* AddMonitorItems without s.mu.Lock(): the fault that lets two mutations
\* run at once, which C18 excludes.
AddMonitorItemsNoLock(t, s, nodes) ==
    /\ CanCall(t)
    /\ nextClientHandle + Pending + Len(nodes) <= SeedHandle + MaxAlloc
    /\ LET c == NewCall("add", s, Len(nodes), nodes, <<>>, FALSE) IN
       IF Len(nodes) = 0
       THEN Return(t, c, "nil", handles[s], itemLookup[s])
       ELSE /\ mu' = [mu EXCEPT ![s] = t]
            /\ pc' = [pc EXCEPT ![t] = "add_alloc"]
            /\ call' = [call EXCEPT ![t] = c]
            /\ lastCall' = NoCall
    /\ UNCHANGED <<nextClientHandle, errHandlerCB, handles, itemLookup, closed,
                   subState, serverItemID, allocLog, panicked, pumpVars>>

\* s.mu.Lock(); if len(nodes) == 0 { return nil, nil }
AddMonitorItems(t, s, nodes) ==
    /\ CanCall(t)
    /\ nextClientHandle + Pending + Len(nodes) <= SeedHandle + MaxAlloc
    /\ mu[s] = NoThread
    /\ LET c == NewCall("add", s, Len(nodes), nodes, <<>>, FALSE) IN
       IF Len(nodes) = 0
       THEN Return(t, c, "nil", handles[s], itemLookup[s])
       ELSE /\ mu' = [mu EXCEPT ![s] = t]
            /\ pc' = [pc EXCEPT ![t] = "add_alloc"]
            /\ call' = [call EXCEPT ![t] = c]
            /\ lastCall' = NoCall
    /\ UNCHANGED <<nextClientHandle, errHandlerCB, handles, itemLookup, closed,
                   subState, serverItemID, allocLog, panicked, pumpVars>>

\* AddAlloc without the reservation in s.handles: the fault that leaves a
\* successful add uncounted, which C6 excludes.
AddAllocNoReserve(t) ==
    /\ Running
    /\ pc[t] = "add_alloc"
    /\ LET c == call[t]
           h == AtomicAddUint32(nextClientHandle)
       IN /\ nextClientHandle' = h
          /\ allocLog' = Append(allocLog, [handle |-> h, sub |-> c.s])
          /\ call' = [call EXCEPT ![t].hs = Append(@, h), ![t].i = @ + 1]
          /\ pc' = [pc EXCEPT ![t] = IF c.i = Len(c.nodes) THEN "add_rpc"
                                                           ELSE "add_alloc"]
    /\ lastCall' = NoCall
    /\ UNCHANGED <<errHandlerCB, handles, itemLookup, mu, closed, subState,
                   serverItemID, panicked, pumpVars>>

\* One turn of "for i, node := range nodes": allocate a handle, reserve it in
\* s.handles, remember it in nodes[i].handle.
AddAlloc(t) ==
    /\ Running
    /\ pc[t] = "add_alloc"
    /\ LET c == call[t]
           h == AtomicAddUint32(nextClientHandle)
       IN /\ nextClientHandle' = h
          /\ allocLog' = Append(allocLog, [handle |-> h, sub |-> c.s])
          /\ handles' = [handles EXCEPT ![c.s] = Put(@, h, c.nodes[c.i])]
          /\ call' = [call EXCEPT ![t].hs = Append(@, h), ![t].i = @ + 1]
          /\ pc' = [pc EXCEPT ![t] = IF c.i = Len(c.nodes) THEN "add_rpc"
                                                           ELSE "add_alloc"]
    /\ lastCall' = NoCall
    /\ UNCHANGED <<errHandlerCB, itemLookup, mu, closed, subState, serverItemID,
                   panicked, pumpVars>>

\* resp, err := s.sub.Monitor(...) and the three checks of the reply.
AddRPC(t) ==
    /\ Running
    /\ pc[t] = "add_rpc"
    /\ LET c0 == call[t]
           c == [c0 EXCEPT !.rpcs = @ + 1]
           s == c.s
       IN \E r \in MonitorReplies(s, Len(c.hs)) :
            /\ serverItemID' = [serverItemID EXCEPT
                                    ![s] = @ + OkUpTo([k \in DOMAIN r.results |->
                                                r.results[k].StatusCode],
                                                     Len(r.results))]
            /\ IF r.err
               THEN Return(t, c, "transport", handles[s], itemLookup[s])
               ELSE IF r.svc # OK
               THEN Return(t, c, "service", handles[s], itemLookup[s])
               ELSE IF Len(r.results) # Len(c.hs)
               THEN Return(t, c, "mismatch", handles[s], itemLookup[s])
               ELSE /\ call' = [call EXCEPT ![t] =
                                   [c EXCEPT !.results = r.results, !.i = 1]]
                    /\ pc' = [pc EXCEPT ![t] = "add_commit"]
                    /\ lastCall' = NoCall /\ UNCHANGED mu
    /\ UNCHANGED <<nextClientHandle, errHandlerCB, handles, itemLookup, closed,
                   subState, allocLog, panicked, pumpVars>>

\* One turn of "for i, res := range resp.Results", and the return after the
\* last one.
AddCommit(t) ==
    /\ Running
    /\ pc[t] = "add_commit"
    /\ LET c == call[t]
           s == c.s
           res == c.results[c.i]
           mn == Item(res.MonitoredItemID, c.nodes[c.i], c.hs[c.i])
           I == Put(itemLookup[s], res.MonitoredItemID, mn)
           done == [c EXCEPT !.ret = Append(@, mn)]
       IN IF res.StatusCode # OK
          THEN /\ Return(t, c, "status", handles[s], itemLookup[s])
               /\ UNCHANGED itemLookup
          ELSE /\ itemLookup' = [itemLookup EXCEPT ![s] = I]
               /\ IF c.i = Len(c.results)
                  THEN Return(t, done, "nil", handles[s], I)
                  ELSE /\ call' = [call EXCEPT ![t] = [done EXCEPT !.i = @ + 1]]
                       /\ lastCall' = NoCall /\ UNCHANGED <<pc, mu>>
    /\ UNCHANGED <<nextClientHandle, errHandlerCB, handles, closed, subState,
                   serverItemID, allocLog, panicked, pumpVars>>

\* ---------------------------------------------------------- newSubscription
\* newSubscription up to the first loop of the AddMonitorItems it calls through
\* AddNodes and AddNodeIDs: m.client.Subscribe fails (ok = FALSE) and the error
\* is returned, or it succeeds, the transport subscription is live, and the
\* add of the initial nodes begins. The error of that add is the error
\* newSubscription returns; no path calls s.sub.Cancel.
NewSubscription(t, s, nodes, ok) ==
    /\ CanCall(t)
    /\ subState[s] = "none"
    /\ nextClientHandle + Pending + Len(nodes) <= SeedHandle + MaxAlloc
    /\ LET c == NewCall("open", s, Len(nodes), nodes, <<>>, FALSE) IN
       IF ~ok
       THEN /\ Return(t, c, "transport", handles[s], itemLookup[s])
            /\ UNCHANGED subState
       ELSE /\ subState' = [subState EXCEPT ![s] = "live"]
            /\ IF Len(nodes) = 0
               THEN Return(t, c, "nil", handles[s], itemLookup[s])
               ELSE /\ mu' = [mu EXCEPT ![s] = t]
                    /\ pc' = [pc EXCEPT ![t] = "add_alloc"]
                    /\ call' = [call EXCEPT ![t] = c]
                    /\ lastCall' = NoCall
    /\ UNCHANGED <<nextClientHandle, errHandlerCB, handles, itemLookup, closed,
                   serverItemID, allocLog, panicked, pumpVars>>

\* ------------------------------------------------------ RemoveMonitorItems
\* The items of index I whose nodeID.String() equals node.
Matches(I, node) == {I[k] : k \in {j \in DOMAIN I : I[j].nodeID = node}}

\* "for _, node := range nodes { for _, item := range s.itemLookup { if ... {
\* append; break } } }": per node the first match in map order (any match),
\* nothing for a node without one.
RECURSIVE ScanItems(_, _)
ScanItems(I, nodes) ==
    IF nodes = <<>> THEN {<<>>}
    ELSE LET m == Matches(I, Head(nodes))
             rest == ScanItems(I, Tail(nodes))
         IN IF m = {} THEN rest
            ELSE {<<x>> \o r : x \in m, r \in rest}

SomeMissed(I, nodes) == \E k \in DOMAIN nodes : Matches(I, nodes[k]) = {}

\* s.mu.Lock(); if len(items) == 0 { return nil }
EnterLocked(t, c, first) ==
    IF Len(c.items) = 0
    THEN Return(t, c, "nil", handles[c.s], itemLookup[c.s])
    ELSE /\ mu' = [mu EXCEPT ![c.s] = t]
         /\ pc' = [pc EXCEPT ![t] = first]
         /\ call' = [call EXCEPT ![t] = c]
         /\ lastCall' = NoCall

RemoveMonitorItems(t, s, items) ==
    /\ CanCall(t)
    /\ mu[s] = NoThread
    /\ EnterLocked(t, NewCall("remove", s, Len(items), <<>>, items, FALSE), "rm_loop")
    /\ UNCHANGED <<nextClientHandle, errHandlerCB, handles, itemLookup, closed,
                   subState, serverItemID, allocLog, panicked, pumpVars>>

\* RemoveNodeIDs up to its call of RemoveMonitorItems: the scan of
\* s.itemLookup, made without s.mu.
RemoveNodeIDs(t, s, nodes) ==
    /\ CanCall(t)
    /\ IF Len(nodes) = 0
       THEN /\ lastCall' =
                    Outcome(t, NewCall("rmnodes", s, 0, <<>>, <<>>, FALSE), "nil",
                            handles[s], itemLookup[s])
            /\ UNCHANGED <<pc, call>>
       ELSE /\ \E toRemove \in ScanItems(itemLookup[s], nodes) :
                 call' = [call EXCEPT ![t] =
                            StartCall("rmnodes", s, Len(nodes), <<>>, toRemove,
                                    SomeMissed(itemLookup[s], nodes))]
            /\ pc' = [pc EXCEPT ![t] = "rm_enter"]
            /\ lastCall' = NoCall
    /\ UNCHANGED <<nextClientHandle, errHandlerCB, handles, itemLookup, mu,
                   closed, subState, serverItemID, allocLog, panicked, pumpVars>>

\* RemoveNodeIDs' call of RemoveMonitorItems(ctx, toRemove...).
RemoveEnter(t) ==
    /\ Running
    /\ pc[t] = "rm_enter"
    /\ mu[call[t].s] = NoThread
    /\ EnterLocked(t, Locked(call[t]), "rm_loop")
    /\ UNCHANGED <<nextClientHandle, errHandlerCB, handles, itemLookup, closed,
                   subState, serverItemID, allocLog, panicked, pumpVars>>

\* One turn of "for _, item := range items".
RemoveStep(t) ==
    /\ Running
    /\ pc[t] = "rm_loop"
    /\ LET c == call[t]
           s == c.s
           item == c.items[c.i]
       IN IF item.id \notin DOMAIN itemLookup[s]
          THEN /\ Return(t, c, "notfound", handles[s], itemLookup[s])
               /\ UNCHANGED <<handles, itemLookup>>
          ELSE /\ itemLookup' = [itemLookup EXCEPT ![s] = Delete(@, item.id)]
               /\ handles' = [handles EXCEPT ![s] = Delete(@, item.handle)]
               /\ call' = [call EXCEPT ![t].ids = Append(@, item.id),
                                       ![t].i = @ + 1]
               /\ pc' = [pc EXCEPT ![t] = IF c.i = Len(c.items) THEN "rm_rpc"
                                                                ELSE "rm_loop"]
               /\ lastCall' = NoCall /\ UNCHANGED mu
    /\ UNCHANGED <<nextClientHandle, errHandlerCB, closed, subState,
                   serverItemID, allocLog, panicked, pumpVars>>

\* The error a reply r to a request for n items makes the call return:
\* err, the service result, the length of Results, each status in turn.
ReplyError(r, n) ==
    IF r.err THEN "transport"
    ELSE IF r.svc # OK THEN "service"
    ELSE IF Len(r.results) # n THEN "mismatch"
    ELSE IF \E k \in DOMAIN r.results : r.results[k] # OK THEN "status"
    ELSE "nil"

\* resp, err := s.sub.Unmonitor(ctx, toRemove...) and the checks after it.
RemoveRPC(t) ==
    /\ Running
    /\ pc[t] = "rm_rpc"
    /\ LET c == [call[t] EXCEPT !.rpcs = @ + 1] IN
       \E r \in StatusReplies(c.s, Len(c.ids)) :
           Return(t, c, ReplyError(r, Len(c.ids)), handles[c.s], itemLookup[c.s])
    /\ UNCHANGED <<nextClientHandle, errHandlerCB, handles, itemLookup, closed,
                   subState, serverItemID, allocLog, panicked, pumpVars>>

\* ------------------------------------------------------ ModifyMonitorItems
\* type Request struct: the node and whether MonitoringParameters is set.
Request(node, params) == [NodeID |-> node, MonitoringParameters |-> params]

\* The request lists callers pass to ModifyMonitorItems: each node list with
\* MonitoringParameters set everywhere, or everywhere but in the first.
RequestLists ==
    {[k \in DOMAIN nodes |-> Request(nodes[k], k > 1 \/ p)] :
        nodes \in NodeLists, p \in BOOLEAN}

\* The item ids of toModify: per request the first item of its node, unless
\* the request has no MonitoringParameters.
RECURSIVE ScanModify(_, _)
ScanModify(I, reqs) ==
    IF reqs = <<>> THEN {<<>>}
    ELSE LET m == Matches(I, Head(reqs).NodeID)
             rest == ScanModify(I, Tail(reqs))
         IN IF m = {} \/ ~Head(reqs).MonitoringParameters THEN rest
            ELSE {<<x.id>> \o r : x \in m, r \in rest}

\* ModifyMonitorItems without "if len(nodes) == 0 { return nil }": the fault
\* that sends an empty batch to the server, which C23 excludes.
ModifyMonitorItemsNoEmptyCheck(t, s, reqs) ==
    /\ CanCall(t)
    /\ mu[s] = NoThread
    /\ LET c == NewCall("modify", s, Len(reqs), <<>>, <<>>, FALSE) IN
       /\ \E toModify \in ScanModify(itemLookup[s], reqs) :
             call' = [call EXCEPT ![t] = [c EXCEPT !.ids = toModify]]
       /\ mu' = [mu EXCEPT ![s] = t]
       /\ pc' = [pc EXCEPT ![t] = "mod_rpc"]
       /\ lastCall' = NoCall
    /\ UNCHANGED <<nextClientHandle, errHandlerCB, handles, itemLookup, closed,
                   subState, serverItemID, allocLog, panicked, pumpVars>>

\* s.mu.Lock(), the empty check and the loop that builds toModify.
ModifyMonitorItems(t, s, reqs) ==
    /\ CanCall(t)
    /\ mu[s] = NoThread
    /\ LET c == NewCall("modify", s, Len(reqs), <<>>, <<>>, FALSE) IN
       IF Len(reqs) = 0
       THEN Return(t, c, "nil", handles[s], itemLookup[s])
       ELSE /\ \E toModify \in ScanModify(itemLookup[s], reqs) :
                 call' = [call EXCEPT ![t] = [c EXCEPT !.ids = toModify]]
            /\ mu' = [mu EXCEPT ![s] = t]
            /\ pc' = [pc EXCEPT ![t] = "mod_rpc"]
            /\ lastCall' = NoCall
    /\ UNCHANGED <<nextClientHandle, errHandlerCB, handles, itemLookup, closed,
                   subState, serverItemID, allocLog, panicked, pumpVars>>

\* The RPC step dropping the items it named from both indices when the reply
\* is an error: the fault that makes a mode change alter the indices, which
\* C22 excludes.
ModifyRPCForgetting(t) ==
    /\ Running
    /\ pc[t] = "mod_rpc"
    /\ LET c == [call[t] EXCEPT !.rpcs = @ + 1]
           I == itemLookup[c.s]
           keepI == {k \in DOMAIN I : k \notin Range(c.ids)}
           keepH == {I[k].handle : k \in keepI}
       IN \E r \in StatusReplies(c.s, Len(c.ids)) :
            LET e == ReplyError(r, Len(c.ids))
                H2 == IF e = "nil" THEN handles[c.s]
                      ELSE [h \in keepH |-> handles[c.s][h]]
                I2 == IF e = "nil" THEN I ELSE [k \in keepI |-> I[k]]
            IN /\ handles' = [handles EXCEPT ![c.s] = H2]
               /\ itemLookup' = [itemLookup EXCEPT ![c.s] = I2]
               /\ Return(t, c, e, H2, I2)
    /\ UNCHANGED <<nextClientHandle, errHandlerCB, closed,
                   subState, serverItemID, allocLog, panicked, pumpVars>>

\* resp, err := s.sub.ModifyMonitoredItems(...) and the checks after it.
ModifyRPC(t) ==
    /\ Running
    /\ pc[t] = "mod_rpc"
    /\ LET c == [call[t] EXCEPT !.rpcs = @ + 1] IN
       \E r \in StatusReplies(c.s, Len(c.ids)) :
           Return(t, c, ReplyError(r, Len(c.ids)), handles[c.s], itemLookup[c.s])
    /\ UNCHANGED <<nextClientHandle, errHandlerCB, handles, itemLookup, closed,
                   subState, serverItemID, allocLog, panicked, pumpVars>>

\* ------------------------------------------------------- SetMonitoringMode
ItemIDs(items) == [k \in DOMAIN items |-> items[k].id]

\* s.mu.Lock(), the empty check and the loop that builds toSet.
SetMonitoringMode(t, s, items) ==
    /\ CanCall(t)
    /\ mu[s] = NoThread
    /\ EnterLocked(t, [NewCall("setmode", s, Len(items), <<>>, items, FALSE)
                          EXCEPT !.ids = ItemIDs(items)], "set_rpc")
    /\ UNCHANGED <<nextClientHandle, errHandlerCB, handles, itemLookup, closed,
                   subState, serverItemID, allocLog, panicked, pumpVars>>

\* SetMonitoringModeForNodeIDs up to its call of SetMonitoringMode: the scan
\* of s.itemLookup, made without s.mu.
SetMonitoringModeForNodeIDs(t, s, nodes) ==
    /\ CanCall(t)
    /\ IF Len(nodes) = 0
       THEN /\ lastCall' =
                    Outcome(t, NewCall("setnodes", s, 0, <<>>, <<>>, FALSE), "nil",
                            handles[s], itemLookup[s])
            /\ UNCHANGED <<pc, call>>
       ELSE /\ \E toSet \in ScanItems(itemLookup[s], nodes) :
                 call' = [call EXCEPT ![t] =
                            [StartCall("setnodes", s, Len(nodes), <<>>, toSet,
                                     SomeMissed(itemLookup[s], nodes))
                                EXCEPT !.ids = ItemIDs(toSet)]]
            /\ pc' = [pc EXCEPT ![t] = "set_enter"]
            /\ lastCall' = NoCall
    /\ UNCHANGED <<nextClientHandle, errHandlerCB, handles, itemLookup, mu,
                   closed, subState, serverItemID, allocLog, panicked, pumpVars>>

\* SetMonitoringModeForNodeIDs' call of SetMonitoringMode(ctx, mode, toSet...).
SetEnter(t) ==
    /\ Running
    /\ pc[t] = "set_enter"
    /\ mu[call[t].s] = NoThread
    /\ EnterLocked(t, Locked(call[t]), "set_rpc")
    /\ UNCHANGED <<nextClientHandle, errHandlerCB, handles, itemLookup, closed,
                   subState, serverItemID, allocLog, panicked, pumpVars>>

\* resp, err := s.sub.SetMonitoringMode(...) and the checks after it.
SetRPC(t) ==
    /\ Running
    /\ pc[t] = "set_rpc"
    /\ LET c == [call[t] EXCEPT !.rpcs = @ + 1] IN
       \E r \in StatusReplies(c.s, Len(c.ids)) :
           Return(t, c, ReplyError(r, Len(c.ids)), handles[c.s], itemLookup[c.s])
    /\ UNCHANGED <<nextClientHandle, errHandlerCB, handles, itemLookup, closed,
                   subState, serverItemID, allocLog, panicked, pumpVars>>

\* -------------------------------------------------------------- Unsubscribe
\* close(s.closed); return s.sub.Cancel(ctx). Closing a closed channel panics.
Unsubscribe(t, s) ==
    /\ CanCall(t)
    /\ IF closed[s]
       THEN /\ panicked' = "close of closed channel"
            /\ lastCall' = NoCall /\ UNCHANGED <<closed, subState>>
       ELSE /\ closed' = [closed EXCEPT ![s] = TRUE]
            /\ subState' = [subState EXCEPT ![s] = "cancelled"]
            /\ lastCall' =
                    Outcome(t, NewCall("unsubscribe", s, 0, <<>>, <<>>, FALSE), "nil",
                            handles[s], itemLookup[s])
            /\ UNCHANGED panicked
    /\ UNCHANGED <<nextClientHandle, errHandlerCB, handles, itemLookup, mu,
                   serverItemID, pc, call, allocLog, pumpVars>>

\* -------------------------------------------------------------------- pump
\* *opcua.PublishNotificationData as the pump reads it. SubscriptionID is
\* "own" when it equals s.sub.SubscriptionID; Value is a
\* *ua.DataChangeNotification ("DataChange") or anything else ("Other").
Notification(seq, error, subID, type, items) ==
    [seq |-> seq, Error |-> error, SubscriptionID |-> subID, Value |-> type,
     MonitoredItems |-> items]

NoMsg == Notification(0, FALSE, "own", "Other", <<>>)

\* type DataChangeMessage struct { *ua.DataValue; Error; NodeID }
DataChangeMessage(value, error, node) ==
    [DataValue |-> value, Error |-> error, NodeID |-> node]

NoValue == <<>>
NoNode == ""
NoOut == DataChangeMessage(NoValue, "nil", NoNode)

PumpAt(where, msg, i, out) == [pc |-> where, msg |-> msg, i |-> i, out |-> out]

\* The handles allocated for subscription s, oldest first: the client
\* handles the server can name in its notifications.
HandlesOf(s) ==
    LET idx == {k \in DOMAIN allocLog : allocLog[k].sub = s}
        RECURSIVE Pick(_, _)
        Pick(k, acc) ==
            IF k > Len(allocLog) THEN acc
            ELSE Pick(k + 1, IF k \in idx THEN Append(acc, allocLog[k].handle)
                                          ELSE acc)
    IN Pick(1, <<>>)

\* k change records of notification seq, naming the handles of s in turn.
ChangeItems(s, k, seq) ==
    LET hs == HandlesOf(s) IN
    [i \in 1..k |-> [ClientHandle |-> hs[((i - 1) % Len(hs)) + 1],
                     Value |-> <<seq, i>>]]

\* What the transport can put on s.internalNotifyCh as notification seq.
Notifications(s, seq) ==
    {Notification(seq, TRUE, "own", "Other", <<>>),
     Notification(seq, FALSE, "other", "DataChange", <<>>),
     Notification(seq, FALSE, "own", "Other", <<>>)}
    \cup {Notification(seq, FALSE, "own", "DataChange", ChangeItems(s, k, seq)) :
            k \in (IF HandlesOf(s) = <<>> THEN {0} ELSE 0..MaxRecords)}

\* The transport publishes a notification; a full channel makes it wait.
Publish(s) ==
    /\ Running
    /\ subState[s] = "live"
    /\ emitted < MaxNotifs
    /\ Len(internalNotifyCh[s]) < NotifyChanLength
    /\ \E m \in Notifications(s, emitted + 1) :
         internalNotifyCh' = [internalNotifyCh EXCEPT ![s] = Append(@, m)]
    /\ emitted' = emitted + 1
    /\ UNCHANGED <<mutVars, mode, ctxDone, notifyCh, pump, delivered, dropped,
                   errLog, sentLog, drained, records, handlerReturned>>

\* The caller cancels the ctx it gave to Subscribe / ChanSubscribe.
CancelCtx(s) ==
    /\ Running
    /\ ~ctxDone[s]
    /\ ctxDone' = [ctxDone EXCEPT ![s] = TRUE]
    /\ UNCHANGED <<mutVars, mode, internalNotifyCh, notifyCh, pump, delivered,
                   dropped, errLog, sentLog, drained, records, emitted, handlerReturned>>

\* The consumer receives from the channel it gave to ChanSubscribe.
ConsumerRecv(s) ==
    /\ Running
    /\ notifyCh[s] # <<>>
    /\ notifyCh' = [notifyCh EXCEPT ![s] = Tail(@)]
    /\ drained' = [drained EXCEPT ![s] = @ + 1]
    /\ UNCHANGED <<mutVars, mode, ctxDone, internalNotifyCh, pump, delivered,
                   dropped, errLog, sentLog, records, emitted, handlerReturned>>

\* func (s *Subscription) sendError(err error): the log after it.
SendError(s, err) ==
    IF errHandlerCB THEN [errLog EXCEPT ![s] = Append(@, err)] ELSE errLog

\* select { case <-ctx.Done(): return
PumpCtxDone(s) ==
    /\ Running
    /\ pump[s].pc = "select"
    /\ ctxDone[s]
    /\ pump' = [pump EXCEPT ![s] = PumpAt("done", NoMsg, 0, NoOut)]
    /\ UNCHANGED <<mutVars, mode, ctxDone, internalNotifyCh, notifyCh, delivered,
                   dropped, errLog, sentLog, drained, records, emitted, handlerReturned>>

\* case <-s.closed: return
PumpClosed(s) ==
    /\ Running
    /\ pump[s].pc = "select"
    /\ closed[s]
    /\ pump' = [pump EXCEPT ![s] = PumpAt("done", NoMsg, 0, NoOut)]
    /\ UNCHANGED <<mutVars, mode, ctxDone, internalNotifyCh, notifyCh, delivered,
                   dropped, errLog, sentLog, drained, records, emitted, handlerReturned>>

\* case msg := <-s.internalNotifyCh:
PumpRecv(s) ==
    /\ Running
    /\ pump[s].pc = "select"
    /\ internalNotifyCh[s] # <<>>
    /\ pump' = [pump EXCEPT ![s] = PumpAt("check", Head(internalNotifyCh[s]), 0, NoOut)]
    /\ internalNotifyCh' = [internalNotifyCh EXCEPT ![s] = Tail(@)]
    /\ UNCHANGED <<mutVars, mode, ctxDone, notifyCh, delivered, dropped, errLog,
                   sentLog, drained, records, emitted, handlerReturned>>

\* PumpCheck with the buffer-full branch falling through to the type switch
\* where the code says continue: the fault that drops and still dispatches,
\* which C11 excludes.
PumpCheckNoContinue(s) ==
    /\ Running
    /\ pump[s].pc = "check"
    /\ LET msg == pump[s].msg
           back == [pump EXCEPT ![s] = PumpAt("select", NoMsg, 0, NoOut)]
           full == /\ mode[s] = "cb"
                   /\ NotifyChanLength > 0
                   /\ Len(internalNotifyCh[s]) = NotifyChanLength
       IN IF msg.Error
          THEN /\ errLog' = SendError(s, "transport")
               /\ pump' = back
               /\ UNCHANGED <<dropped, records>>
          ELSE IF msg.SubscriptionID # "own"
          THEN /\ errLog' = SendError(s, "mismatch")
               /\ pump' = back
               /\ UNCHANGED <<dropped, records>>
          ELSE /\ dropped' = IF full THEN [dropped EXCEPT ![s] = @ + 1] ELSE dropped
               /\ IF msg.Value = "DataChange"
                  THEN /\ pump' = IF msg.MonitoredItems = <<>> THEN back
                                  ELSE [pump EXCEPT ![s] = PumpAt("lookup", msg, 1, NoOut)]
                       /\ records' = [records EXCEPT ![s] = @ + Len(msg.MonitoredItems)]
                       /\ errLog' = IF full THEN SendError(s, "slow") ELSE errLog
                  ELSE /\ errLog' = SendError(s, IF full THEN "slow" ELSE "unknown")
                       /\ pump' = back
                       /\ UNCHANGED records
    /\ UNCHANGED <<mutVars, mode, ctxDone, internalNotifyCh, notifyCh, delivered,
                   sentLog, drained, emitted, handlerReturned>>

\* The checks of msg before the type switch, and the switch: an error, a
\* foreign subscription id, the buffer found full in callback mode, a value
\* that is no data-change notification.
PumpCheck(s) ==
    /\ Running
    /\ pump[s].pc = "check"
    /\ LET msg == pump[s].msg
           back == [pump EXCEPT ![s] = PumpAt("select", NoMsg, 0, NoOut)]
       IN IF msg.Error
          THEN /\ errLog' = SendError(s, "transport")
               /\ pump' = back
               /\ UNCHANGED <<dropped, records>>
          ELSE IF msg.SubscriptionID # "own"
          THEN /\ errLog' = SendError(s, "mismatch")
               /\ pump' = back
               /\ UNCHANGED <<dropped, records>>
          ELSE IF /\ mode[s] = "cb"
                  /\ NotifyChanLength > 0
                  /\ Len(internalNotifyCh[s]) = NotifyChanLength
          THEN /\ errLog' = SendError(s, "slow")
               /\ dropped' = [dropped EXCEPT ![s] = @ + 1]
               /\ records' = [records EXCEPT ![s] =
                                 @ + (IF msg.Value = "DataChange"
                                      THEN Len(msg.MonitoredItems) ELSE 0)]
               /\ pump' = back
          ELSE IF msg.Value = "DataChange"
          THEN /\ pump' = IF msg.MonitoredItems = <<>> THEN back
                          ELSE [pump EXCEPT ![s] = PumpAt("lookup", msg, 1, NoOut)]
               /\ records' = [records EXCEPT ![s] = @ + Len(msg.MonitoredItems)]
               /\ UNCHANGED <<errLog, dropped>>
          ELSE /\ errLog' = SendError(s, "unknown")
               /\ pump' = back
               /\ UNCHANGED <<dropped, records>>
    /\ UNCHANGED <<mutVars, mode, ctxDone, internalNotifyCh, notifyCh, delivered,
                   sentLog, drained, emitted, handlerReturned>>

\* The lookup without s.mu.RUnlock(): the fault that leaves the read side
\* held during the delivery, which C20 excludes. The holder is written as a
\* thread number no caller has.
PumpLookupNoRUnlock(s) ==
    /\ Running
    /\ pump[s].pc = "lookup"
    /\ mu[s] = NoThread
    /\ LET item == pump[s].msg.MonitoredItems[pump[s].i]
           ok == item.ClientHandle \in DOMAIN handles[s]
           out == IF ~ok
                  THEN DataChangeMessage(NoValue, "handle not found", NoNode)
                  ELSE DataChangeMessage(item.Value, "nil",
                                         handles[s][item.ClientHandle])
       IN pump' = [pump EXCEPT ![s].pc = "deliver", ![s].out = out]
    /\ mu' = [mu EXCEPT ![s] = Cardinality(Threads) + 1]
    /\ UNCHANGED <<nextClientHandle, errHandlerCB, handles, itemLookup, closed,
                   subState, serverItemID, pc, call, lastCall, allocLog, panicked,
                   mode, ctxDone, internalNotifyCh, notifyCh, delivered,
                   dropped, errLog, sentLog, drained, records, emitted, handlerReturned>>

\* The lookup walking v.MonitoredItems from its end: the fault that delivers
\* the records of one notification in reverse, which C14 excludes.
PumpLookupReversed(s) ==
    /\ Running
    /\ pump[s].pc = "lookup"
    /\ mu[s] = NoThread
    /\ LET items == pump[s].msg.MonitoredItems
           item == items[Len(items) - pump[s].i + 1]
           ok == item.ClientHandle \in DOMAIN handles[s]
           out == IF ~ok
                  THEN DataChangeMessage(NoValue, "handle not found", NoNode)
                  ELSE DataChangeMessage(item.Value, "nil",
                                         handles[s][item.ClientHandle])
       IN pump' = [pump EXCEPT ![s].pc = "deliver", ![s].out = out]
    /\ UNCHANGED <<mutVars, mode, ctxDone, internalNotifyCh, notifyCh, delivered,
                   dropped, errLog, sentLog, drained, records, emitted, handlerReturned>>

\* The lookup with a miss sent to the error handler and an empty message
\* left for the consumer: the fault C12 excludes.
PumpLookupMissToHandler(s) ==
    /\ Running
    /\ pump[s].pc = "lookup"
    /\ mu[s] = NoThread
    /\ LET item == pump[s].msg.MonitoredItems[pump[s].i]
           ok == item.ClientHandle \in DOMAIN handles[s]
           out == IF ~ok
                  THEN NoOut
                  ELSE DataChangeMessage(item.Value, "nil",
                                         handles[s][item.ClientHandle])
       IN /\ pump' = [pump EXCEPT ![s].pc = "deliver", ![s].out = out]
          /\ errLog' = IF ok THEN errLog ELSE SendError(s, "handle not found")
    /\ UNCHANGED <<mutVars, mode, ctxDone, internalNotifyCh, notifyCh, delivered,
                   dropped, sentLog, drained, records, emitted, handlerReturned>>

\* s.mu.RLock(); nid, ok := s.handles[item.ClientHandle]; s.mu.RUnlock(), and
\* the message built from it.
PumpLookup(s) ==
    /\ Running
    /\ pump[s].pc = "lookup"
    /\ mu[s] = NoThread
    /\ LET item == pump[s].msg.MonitoredItems[pump[s].i]
           ok == item.ClientHandle \in DOMAIN handles[s]
           out == IF ~ok
                  THEN DataChangeMessage(NoValue, "handle not found", NoNode)
                  ELSE DataChangeMessage(item.Value, "nil",
                                         handles[s][item.ClientHandle])
       IN pump' = [pump EXCEPT ![s].pc = "deliver", ![s].out = out]
    /\ UNCHANGED <<mutVars, mode, ctxDone, internalNotifyCh, notifyCh, delivered,
                   dropped, errLog, sentLog, drained, records, emitted, handlerReturned>>

\* Where the pump goes after one item: the next item, or back to the select.
PumpAfterItem(s) ==
    IF pump[s].i = Len(pump[s].msg.MonitoredItems)
    THEN [pump EXCEPT ![s] = PumpAt("select", NoMsg, 0, NoOut)]
    ELSE [pump EXCEPT ![s].pc = "lookup", ![s].i = @ + 1, ![s].out = NoOut]

\* The channel send without the default case: the fault that makes the pump
\* wait for the consumer, which C10 excludes.
PumpDeliverBlocking(s) ==
    /\ Running
    /\ pump[s].pc = "deliver"
    /\ IF mode[s] = "chan"
       THEN /\ Len(notifyCh[s]) < ConsumerCap
            /\ notifyCh' = [notifyCh EXCEPT ![s] = Append(@, pump[s].out)]
            /\ sentLog' = [sentLog EXCEPT ![s] = Append(@, pump[s].out)]
            /\ delivered' = [delivered EXCEPT ![s] = @ + 1]
            /\ pump' = PumpAfterItem(s)
            /\ UNCHANGED <<dropped, errLog, panicked>>
       ELSE IF mode[s] = "cb"
       THEN /\ sentLog' = [sentLog EXCEPT ![s] = Append(@, pump[s].out)]
            /\ delivered' = [delivered EXCEPT ![s] = @ + 1]
            /\ pump' = PumpAfterItem(s)
            /\ UNCHANGED <<notifyCh, dropped, errLog, panicked>>
       ELSE /\ panicked' = "notifyCh or cb must be set"
            /\ UNCHANGED <<notifyCh, sentLog, delivered, dropped, errLog, pump>>
    /\ UNCHANGED <<nextClientHandle, errHandlerCB, handles, itemLookup, mu, closed,
                   subState, serverItemID, pc, call, lastCall, allocLog,
                   mode, ctxDone, internalNotifyCh, drained, records, emitted, handlerReturned>>

\* if notifyCh != nil { select { case notifyCh <- out: ... default: ... } }
\* else if cb != nil { cb(s, out); ... } else { panic(...) }
PumpDeliver(s) ==
    /\ Running
    /\ pump[s].pc = "deliver"
    /\ IF mode[s] = "chan"
       THEN IF Len(notifyCh[s]) < ConsumerCap
            THEN /\ notifyCh' = [notifyCh EXCEPT ![s] = Append(@, pump[s].out)]
                 /\ sentLog' = [sentLog EXCEPT ![s] = Append(@, pump[s].out)]
                 /\ delivered' = [delivered EXCEPT ![s] = @ + 1]
                 /\ pump' = PumpAfterItem(s)
                 /\ UNCHANGED <<dropped, errLog, panicked>>
            ELSE /\ dropped' = [dropped EXCEPT ![s] = @ + 1]
                 /\ errLog' = SendError(s, "slow")
                 /\ pump' = PumpAfterItem(s)
                 /\ UNCHANGED <<notifyCh, sentLog, delivered, panicked>>
       ELSE IF mode[s] = "cb"
       THEN /\ sentLog' = [sentLog EXCEPT ![s] = Append(@, pump[s].out)]
            /\ delivered' = [delivered EXCEPT ![s] = @ + 1]
            /\ pump' = PumpAfterItem(s)
            /\ UNCHANGED <<notifyCh, dropped, errLog, panicked>>
       ELSE /\ panicked' = "notifyCh or cb must be set"
            /\ UNCHANGED <<notifyCh, sentLog, delivered, dropped, errLog, pump>>
    /\ UNCHANGED <<nextClientHandle, errHandlerCB, handles, itemLookup, mu, closed,
                   subState, serverItemID, pc, call, lastCall, allocLog,
                   mode, ctxDone, internalNotifyCh, drained, records, emitted, handlerReturned>>

\* ------------------------------------------------------------ error handler
\* The goroutines sendError has started and that have not returned.
HandlersRunning(s) == Len(errLog[s]) - handlerReturned[s]

\* s.monitor.errHandlerCB(s.monitor.client, s, err) returns, ending the
\* goroutine sendError started for it. A handler that blocks never takes
\* this step.
ErrHandlerReturn(s) ==
    /\ Running
    /\ HandlersRunning(s) > 0
    /\ handlerReturned' = [handlerReturned EXCEPT ![s] = @ + 1]
    /\ UNCHANGED <<mutVars, mode, ctxDone, internalNotifyCh, notifyCh, pump,
                   delivered, dropped, errLog, sentLog, drained, records,
                   emitted>>

\* sendError calling the handler in place, without the go statement: the
\* fault that makes the pump wait for every handler it has started, which C21
\* excludes.
HandlersAwaitedInline(s) == HandlersRunning(s)

\* The handler calls pump has made and must see return before its next
\* statement: none, sendError starts each one with a go statement.
HandlersAwaited(s) == 0

\* The statements of pump: the select, the checks, the lookup, the delivery.
PumpBody(s) ==
    \/ PumpCtxDone(s)
    \/ PumpClosed(s)
    \/ PumpRecv(s)
    \/ PumpCheck(s)
    \/ PumpLookup(s)
    \/ PumpDeliver(s)

\* One step of the pump goroutine, once the calls it has to wait for are back.
PumpStep(s) == HandlersAwaited(s) = 0 /\ PumpBody(s)

\* ------------------------------------------------------------ specification
\* NewNodeMonitor, and Subscribe / ChanSubscribe without initial nodes on
\* each subscription.
Init ==
    /\ nextClientHandle = SeedHandle
    /\ errHandlerCB = TRUE
    /\ handles = [s \in Subs |-> EmptyMap]
    /\ itemLookup = [s \in Subs |-> EmptyMap]
    /\ mu = [s \in Subs |-> NoThread]
    /\ closed = [s \in Subs |-> FALSE]
    /\ subState = [s \in Subs |-> "live"]
    /\ serverItemID = [s \in Subs |-> 0]
    /\ pc = [t \in Threads |-> "idle"]
    /\ call = [t \in Threads |-> IdleCall]
    /\ lastCall = NoCall
    /\ allocLog = <<>>
    /\ panicked = "none"
    /\ mode = [s \in Subs |-> "chan"]
    /\ ctxDone = [s \in Subs |-> FALSE]
    /\ internalNotifyCh = [s \in Subs |-> <<>>]
    /\ notifyCh = [s \in Subs |-> <<>>]
    /\ pump = [s \in Subs |-> PumpAt("select", NoMsg, 0, NoOut)]
    /\ delivered = [s \in Subs |-> 0]
    /\ dropped = [s \in Subs |-> 0]
    /\ errLog = [s \in Subs |-> <<>>]
    /\ sentLog = [s \in Subs |-> <<>>]
    /\ drained = [s \in Subs |-> 0]
    /\ records = [s \in Subs |-> 0]
    /\ emitted = 0
    /\ handlerReturned = [s \in Subs |-> 0]

\* Every call of the API that thread t can start on subscription s.
Calls(t, s) ==
    \/ \E nodes \in AddBatches : AddMonitorItems(t, s, nodes)
    \/ \E nodes \in NodeLists : RemoveNodeIDs(t, s, nodes)
    \/ \E items \in SeqsUpTo(Range(itemLookup[s]), MaxBatch) :
          RemoveMonitorItems(t, s, items)
    \/ \E reqs \in RequestLists : ModifyMonitorItems(t, s, reqs)
    \/ \E items \in SeqsUpTo(Range(itemLookup[s]), MaxBatch) :
          SetMonitoringMode(t, s, items)
    \/ \E nodes \in NodeLists : SetMonitoringModeForNodeIDs(t, s, nodes)
    \/ Unsubscribe(t, s)

\* The calls that change the indices.
IndexCalls(t, s) ==
    \/ \E nodes \in AddBatches : AddMonitorItems(t, s, nodes)
    \/ \E nodes \in NodeLists : RemoveNodeIDs(t, s, nodes)
    \/ \E items \in SeqsUpTo(Range(itemLookup[s]), MaxBatch) :
          RemoveMonitorItems(t, s, items)

\* The next step of thread t's running call.
Step(t) ==
    \/ AddAlloc(t)
    \/ AddRPC(t)
    \/ AddCommit(t)
    \/ RemoveEnter(t)
    \/ RemoveStep(t)
    \/ RemoveRPC(t)
    \/ ModifyRPC(t)
    \/ SetEnter(t)
    \/ SetRPC(t)

IndexStep(t) ==
    \/ AddAlloc(t)
    \/ AddRPC(t)
    \/ AddCommit(t)
    \/ RemoveEnter(t)
    \/ RemoveStep(t)
    \/ RemoveRPC(t)

\* One caller using the whole API of one subscription.
Next ==
    \/ Calls(1, 1)
    \/ Step(1)

Spec == Init /\ [][Next]_vars

\* Two callers changing the indices of the same subscription.
NextConc ==
    \/ \E t \in Threads : IndexCalls(t, 1)
    \/ \E t \in Threads : IndexStep(t)

SpecConc == Init /\ [][NextConc]_vars

\* Two subscriptions of one NodeMonitor, each with a caller of its own.
NextShared ==
    \/ \E t \in Threads :
          \/ \E nodes \in AddBatches : AddMonitorItems(t, t, nodes)
          \/ \E nodes \in NodeLists : RemoveNodeIDs(t, t, nodes)
    \/ \E t \in Threads : IndexStep(t)

SpecShared == Init /\ [][NextShared]_vars

\* Subscription 1 as Subscribe (callback mode) or ChanSubscribe (channel
\* mode) returns it for the one initial node "A", the callback or channel
\* given or nil, with or without an error handler installed; subscription 2
\* as in Init.
InitPump ==
    /\ nextClientHandle = SeedHandle + 1
    /\ errHandlerCB \in BOOLEAN
    /\ handles = [s \in Subs |-> IF s = 1 THEN Put(EmptyMap, SeedHandle + 1, "A")
                                         ELSE EmptyMap]
    /\ itemLookup = [s \in Subs |->
                        IF s = 1 THEN Put(EmptyMap, 1, Item(1, "A", SeedHandle + 1))
                                 ELSE EmptyMap]
    /\ mu = [s \in Subs |-> NoThread]
    /\ closed = [s \in Subs |-> FALSE]
    /\ subState = [s \in Subs |-> "live"]
    /\ serverItemID = [s \in Subs |-> IF s = 1 THEN 1 ELSE 0]
    /\ pc = [t \in Threads |-> "idle"]
    /\ call = [t \in Threads |-> IdleCall]
    /\ lastCall = NoCall
    /\ allocLog = <<[handle |-> SeedHandle + 1, sub |-> 1]>>
    /\ panicked = "none"
    /\ mode \in {[s \in Subs |-> IF s = 1 THEN m ELSE "chan"] :
                    m \in {"chan", "cb", "unset"}}
    /\ ctxDone = [s \in Subs |-> FALSE]
    /\ internalNotifyCh = [s \in Subs |-> <<>>]
    /\ notifyCh = [s \in Subs |-> <<>>]
    /\ pump = [s \in Subs |-> PumpAt("select", NoMsg, 0, NoOut)]
    /\ delivered = [s \in Subs |-> 0]
    /\ dropped = [s \in Subs |-> 0]
    /\ errLog = [s \in Subs |-> <<>>]
    /\ sentLog = [s \in Subs |-> <<>>]
    /\ drained = [s \in Subs |-> 0]
    /\ records = [s \in Subs |-> 0]
    /\ emitted = 0
    /\ handlerReturned = [s \in Subs |-> 0]

\* The pump of subscription 1 with its transport and its consumer, and a
\* caller that cancels the ctx and unsubscribes.
NextPump ==
    \/ Publish(1)
    \/ CancelCtx(1)
    \/ ConsumerRecv(1)
    \/ PumpCtxDone(1)
    \/ PumpClosed(1)
    \/ PumpRecv(1)
    \/ PumpCheck(1)
    \/ PumpLookup(1)
    \/ PumpDeliver(1)
    \/ Unsubscribe(1, 1)

SpecPump == InitPump /\ [][NextPump]_vars

\* Subscription 1 as in InitPump, with its callback or channel given and an
\* error handler installed.
InitDispatch ==
    /\ InitPump
    /\ mode[1] \in {"chan", "cb"}
    /\ errHandlerCB

\* The node list subscription 1 was opened with.
Watched == AddBatch(1)

\* A call made by the callback: the callback runs on the pump's goroutine
\* (thread 1) between the lookup and the count of the delivery.
CallbackCalls(s) ==
    /\ mode[s] = "cb"
    /\ pump[s].pc = "deliver"
    /\ \/ RemoveNodeIDs(1, s, Watched)
       \/ SetMonitoringModeForNodeIDs(1, s, Watched)

\* cb(s, out) returns once the call it made has returned.
CallbackReturn(s) ==
    /\ pc[1] = "idle"
    /\ PumpDeliver(s)

\* The pump of subscription 1 dispatching while its callback (thread 1) and
\* another goroutine (thread 2) remove the watched node.
NextDispatch ==
    \/ Publish(1)
    \/ PumpRecv(1)
    \/ PumpCheck(1)
    \/ PumpLookup(1)
    \/ CallbackCalls(1)
    \/ CallbackReturn(1)
    \/ RemoveNodeIDs(2, 1, Watched)
    \/ \E t \in Threads :
          RemoveEnter(t) \/ RemoveStep(t) \/ RemoveRPC(t) \/ SetEnter(t) \/ SetRPC(t)

SpecDispatch == InitDispatch /\ [][NextDispatch]_vars

\* NewNodeMonitor alone: no subscription opened yet.
InitOpen ==
    /\ nextClientHandle = SeedHandle
    /\ errHandlerCB = TRUE
    /\ handles = [s \in Subs |-> EmptyMap]
    /\ itemLookup = [s \in Subs |-> EmptyMap]
    /\ mu = [s \in Subs |-> NoThread]
    /\ closed = [s \in Subs |-> FALSE]
    /\ subState = [s \in Subs |-> "none"]
    /\ serverItemID = [s \in Subs |-> 0]
    /\ pc = [t \in Threads |-> "idle"]
    /\ call = [t \in Threads |-> IdleCall]
    /\ lastCall = NoCall
    /\ allocLog = <<>>
    /\ panicked = "none"
    /\ mode = [s \in Subs |-> "chan"]
    /\ ctxDone = [s \in Subs |-> FALSE]
    /\ internalNotifyCh = [s \in Subs |-> <<>>]
    /\ notifyCh = [s \in Subs |-> <<>>]
    /\ pump = [s \in Subs |-> PumpAt("select", NoMsg, 0, NoOut)]
    /\ delivered = [s \in Subs |-> 0]
    /\ dropped = [s \in Subs |-> 0]
    /\ errLog = [s \in Subs |-> <<>>]
    /\ sentLog = [s \in Subs |-> <<>>]
    /\ drained = [s \in Subs |-> 0]
    /\ records = [s \in Subs |-> 0]
    /\ emitted = 0
    /\ handlerReturned = [s \in Subs |-> 0]

\* Two goroutines of one NodeMonitor, each opening a subscription of its own
\* with ChanSubscribe.
NextOpen ==
    \/ \E t \in Threads, nodes \in AddBatches, ok \in BOOLEAN :
          NewSubscription(t, t, nodes, ok)
    \/ \E t \in Threads : AddAlloc(t) \/ AddRPC(t) \/ AddCommit(t)

SpecOpen == InitOpen /\ [][NextOpen]_vars

\* Subscription 1 as Subscribe returns it: callback mode.
InitCallback ==
    /\ InitDispatch
    /\ mode[1] = "cb"

\* The dispatch of SpecDispatch with every message going to the callback.
SpecCallback == InitCallback /\ [][NextDispatch]_vars

\* Subscription 1 in channel mode as in InitDispatch, its pump having taken
\* the first notification, one of MaxRecords change records, and standing
\* before the lookup of the first.
InitLock ==
    /\ nextClientHandle = SeedHandle + 1
    /\ errHandlerCB = TRUE
    /\ handles = [s \in Subs |-> IF s = 1 THEN Put(EmptyMap, SeedHandle + 1, "A")
                                         ELSE EmptyMap]
    /\ itemLookup = [s \in Subs |->
                        IF s = 1 THEN Put(EmptyMap, 1, Item(1, "A", SeedHandle + 1))
                                 ELSE EmptyMap]
    /\ mu = [s \in Subs |-> NoThread]
    /\ closed = [s \in Subs |-> FALSE]
    /\ subState = [s \in Subs |-> "live"]
    /\ serverItemID = [s \in Subs |-> IF s = 1 THEN 1 ELSE 0]
    /\ pc = [t \in Threads |-> "idle"]
    /\ call = [t \in Threads |-> IdleCall]
    /\ lastCall = NoCall
    /\ allocLog = <<[handle |-> SeedHandle + 1, sub |-> 1]>>
    /\ panicked = "none"
    /\ mode = [s \in Subs |-> "chan"]
    /\ ctxDone = [s \in Subs |-> FALSE]
    /\ internalNotifyCh = [s \in Subs |-> <<>>]
    /\ notifyCh = [s \in Subs |-> <<>>]
    /\ pump = [s \in Subs |->
                  IF s = 1
                  THEN PumpAt("lookup",
                              Notification(1, FALSE, "own", "DataChange",
                                           [i \in 1..MaxRecords |->
                                               [ClientHandle |-> SeedHandle + 1,
                                                Value |-> <<1, i>>]]),
                              1, NoOut)
                  ELSE PumpAt("select", NoMsg, 0, NoOut)]
    /\ delivered = [s \in Subs |-> 0]
    /\ dropped = [s \in Subs |-> 0]
    /\ errLog = [s \in Subs |-> <<>>]
    /\ sentLog = [s \in Subs |-> <<>>]
    /\ drained = [s \in Subs |-> 0]
    /\ records = [s \in Subs |-> IF s = 1 THEN MaxRecords ELSE 0]
    /\ emitted = 1
    /\ handlerReturned = [s \in Subs |-> 0]

\* The four mutations of the watched node that thread t can start.
LockCalls(t, s) ==
    \/ AddMonitorItems(t, s, Watched)
    \/ RemoveNodeIDs(t, s, Watched)
    \/ ModifyMonitorItems(t, s, <<Request(Watched[1], TRUE)>>)
    \/ SetMonitoringModeForNodeIDs(t, s, Watched)

\* Two goroutines mutating subscription 1 while its pump dispatches the
\* records of a notification.
NextLock ==
    \/ \E t \in Threads : LockCalls(t, 1)
    \/ \E t \in Threads : Step(t)
    \/ PumpLookup(1)
    \/ PumpDeliver(1)

SpecLock == InitLock /\ [][NextLock]_vars

\* Subscription 1 as in InitPump with an error handler installed and its
\* callback or channel given.
InitHandler == InitDispatch

\* The pump of subscription 1 with its transport, its consumer, a caller that
\* cancels and unsubscribes, and the error handler goroutines, each of which
\* returns or blocks.
NextHandler ==
    \/ Publish(1)
    \/ CancelCtx(1)
    \/ ConsumerRecv(1)
    \/ Unsubscribe(1, 1)
    \/ PumpStep(1)
    \/ ErrHandlerReturn(1)

SpecHandler == InitHandler /\ [][NextHandler]_vars

\* ------------------------------------------------------------------ claims
Mutations == {"add", "remove", "rmnodes", "modify", "setmode", "setnodes"}

Count(m) == Cardinality(DOMAIN m)

\* Every item's handle is in handles with the item's node, and every handle
\* is the handle of exactly one item.
IndicesAgree(s) ==
    /\ \A id \in DOMAIN itemLookup[s] :
          /\ itemLookup[s][id].handle \in DOMAIN handles[s]
          /\ handles[s][itemLookup[s][id].handle] = itemLookup[s][id].nodeID
    /\ \A h \in DOMAIN handles[s] :
          Cardinality({id \in DOMAIN itemLookup[s] :
                          itemLookup[s][id].handle = h}) = 1

\* C1: whenever s.mu is free, handles and itemLookup agree: each item's handle
\* maps to the item's node and each handle belongs to exactly one item, after
\* any sequence of mutation calls, failed ones included.
C1_IndicesAgreeWhenUnlocked ==
    \A s \in Subs : mu[s] = NoThread => IndicesAgree(s)

\* C2: the handles the NodeMonitor gives out, over all subscriptions and in
\* the order of allocation, are strictly increasing and all above the seed:
\* none is given out twice, whether or not its item was removed or its add
\* failed.
C2_HandlesUniqueAndIncreasing ==
    /\ \A k \in DOMAIN allocLog : allocLog[k].handle > SeedHandle
    /\ \A j, k \in DOMAIN allocLog :
          j < k => allocLog[j].handle < allocLog[k].handle

\* Two subscriptions have been given a handle each while both AddMonitorItems
\* calls are still running.
C2_Witness_ConcurrentAdds ==
    /\ Len(allocLog) = 2
    /\ allocLog[1].sub # allocLog[2].sub
    /\ \A t \in Threads : pc[t] \in {"add_alloc", "add_rpc", "add_commit"}

\* C3: when the pump is between notifications, delivered + dropped is the
\* number of change records in the notifications it has dispatched or
\* dropped.
C3_CountersAddUp ==
    pump[1].pc \in {"select", "done"} =>
        delivered[1] + dropped[1] = records[1]

\* C4: once Unsubscribe has closed s.closed, no further message reaches the
\* consumer.
C4_NoDispatchAfterUnsubscribe ==
    [][closed[1] => sentLog'[1] = sentLog[1]]_vars

\* C5: no Unsubscribe call panics by closing s.closed a second time.
C5_UnsubscribeNeverPanics ==
    panicked # "close of closed channel"

\* C6: an AddMonitorItems call of n nodes that returns no error leaves
\* Subscribed() n higher than it found it, and its n handles are pairwise
\* distinct, were not in handles before and were allocated only once.
C6_SuccessfulAddCountsAndAllocates ==
    (lastCall.op = "add" /\ lastCall.err = "nil") =>
        /\ Count(lastCall.postH) = Count(lastCall.preH) + lastCall.n
        /\ Len(lastCall.hs) = lastCall.n
        /\ Cardinality(Range(lastCall.hs)) = lastCall.n
        /\ \A h \in Range(lastCall.hs) :
              /\ h \notin DOMAIN lastCall.preH
              /\ Cardinality({k \in DOMAIN allocLog : allocLog[k].handle = h}) = 1

\* An add of two nodes has just returned no error.
C6_Witness_AddOfTwo ==
    /\ lastCall.op = "add"
    /\ lastCall.err = "nil"
    /\ lastCall.n = 2

\* C7: RemoveNodeIDs naming a node that matches no item returns a not-found
\* error and leaves Subscribed() as it was.
C7_RemoveUnknownNodeFails ==
    (lastCall.op = "rmnodes" /\ lastCall.missed) =>
        /\ lastCall.err = "notfound"
        /\ Count(lastCall.postH) = Count(lastCall.preH)

\* C8: an AddMonitorItems call that returns an error leaves Subscribed() as
\* it found it.
C8_FailedAddKeepsCount ==
    (lastCall.op = "add" /\ lastCall.err # "nil") =>
        Count(lastCall.postH) = Count(lastCall.preH)

\* C9: a mutation call that returns an error leaves handles and itemLookup
\* exactly as it found them.
C9_FailedMutationChangesNothing ==
    (lastCall.op \in Mutations /\ lastCall.err # "nil") =>
        /\ lastCall.postH = lastCall.preH
        /\ lastCall.postI = lastCall.preI

\* Number of entries of log q equal to e.
Occurrences(q, e) == Cardinality({k \in DOMAIN q : q[k] = e})

Min(a, b) == IF a < b THEN a ELSE b

\* C10: in channel mode the pump can always go on from a send (it never waits
\* for the consumer); every record is either sent and counted in delivered or
\* counted in dropped with one slow-consumer call of the error handler; and
\* while nobody has drained the channel, exactly the first ConsumerCap
\* records are delivered and every further one is dropped.
C10_ChannelModeNeverBlocks ==
    mode[1] = "chan" =>
        /\ (Running /\ pump[1].pc = "deliver") => ENABLED PumpDeliver(1)
        /\ Len(sentLog[1]) = delivered[1]
        /\ Occurrences(errLog[1], "slow") = (IF errHandlerCB THEN dropped[1] ELSE 0)
        /\ pump[1].pc \in {"select", "done"} =>
              delivered[1] + dropped[1] = records[1]
        /\ (drained[1] = 0 /\ pump[1].pc \in {"select", "done"}) =>
              /\ delivered[1] = Min(records[1], ConsumerCap)
              /\ dropped[1] = records[1] - delivered[1]

\* ConsumerCap + 1 records processed with nobody draining: ConsumerCap
\* delivered, one dropped, one call of the error handler.
C10_Witness_OneDropped ==
    /\ mode[1] = "chan"
    /\ errHandlerCB
    /\ drained[1] = 0
    /\ pump[1].pc = "select"
    /\ records[1] = ConsumerCap + 1
    /\ delivered[1] = ConsumerCap
    /\ dropped[1] = 1
    /\ errLog[1] = <<"slow">>

\* The pump of subscription 1 stands at its checks with the buffer found at
\* capacity in callback mode, and takes the step.
OverloadStep ==
    /\ pump[1].pc = "check"
    /\ pump'[1] # pump[1]
    /\ mode[1] = "cb"
    /\ Len(internalNotifyCh[1]) = NotifyChanLength

\* What C11 says of the step: one more dropped, the slow-consumer error to
\* the handler, nothing delivered, no item of the notification dispatched.
OverloadDrop ==
    /\ dropped'[1] = dropped[1] + 1
    /\ errLog'[1] = SendError(1, "slow")[1]
    /\ delivered'[1] = delivered[1]
    /\ sentLog'[1] = sentLog[1]
    /\ pump'[1].pc = "select"

\* C11 as stated: in callback mode every notification the pump takes while
\* the internal buffer is at capacity is dropped whole: dropped + 1, the
\* slow-consumer error to the handler, no callback, delivered unchanged.
C11_AnyNotificationDroppedWhenFull ==
    [][OverloadStep => OverloadDrop]_vars

\* C11 amended: the same for every notification that carries no transport
\* error and the subscription's own id; the checks for those two come first.
C11_CheckedNotificationDroppedWhenFull ==
    [][(OverloadStep /\ ~pump[1].msg.Error /\ pump[1].msg.SubscriptionID = "own")
          => OverloadDrop]_vars

\* A notification with change records has been dropped whole in callback
\* mode: one drop, one slow-consumer error, nothing delivered.
C11_Witness_DroppedWhole ==
    /\ mode[1] = "cb"
    /\ errHandlerCB
    /\ pump[1].pc = "select"
    /\ records[1] > 0
    /\ dropped[1] = 1
    /\ delivered[1] = 0
    /\ sentLog[1] = <<>>
    /\ errLog[1] = <<"slow">>

\* A message with the node and the value and no error.
IsValueMessage(m) ==
    /\ m.Error = "nil"
    /\ m.NodeID \in Nodes
    /\ m.DataValue # NoValue

\* A message with the handle-not-found error and neither node nor value.
IsMissMessage(m) ==
    /\ m.Error = "handle not found"
    /\ m.NodeID = NoNode
    /\ m.DataValue = NoValue

\* The messages built for the consumer of subscription 1 so far.
Built ==
    Range(sentLog[1]) \cup (IF pump[1].pc = "deliver" THEN {pump[1].out} ELSE {})

C13_FailedOpenReleasesTransport ==
    (lastCall.op = "open" /\ lastCall.err # "nil") =>
        subState[lastCall.s] # "live"

\* Record a (notification a[1], position a[2]) was emitted before record b.
EmittedBefore(a, b) == a[1] < b[1] \/ (a[1] = b[1] /\ a[2] < b[2])

Signalled == ctxDone[1] \/ closed[1]

\* C15: once the ctx is cancelled or Unsubscribe was called, the pump takes
\* nothing more from s.internalNotifyCh on its way to termination, however
\* much is pending there; and it terminates only after one of the two.
C15_TerminatesWithoutDraining ==
    [][/\ Signalled => Len(internalNotifyCh'[1]) >= Len(internalNotifyCh[1])
       /\ (pump[1].pc # "done" /\ pump'[1].pc = "done") => Signalled]_vars

\* C16: whatever notification it receives and however the subscription was
\* created, a nil callback or nil channel included, the pump never panics.
C16_PumpNeverPanics ==
    panicked # "notifyCh or cb must be set"

\* A notification with a transport error, a foreign subscription id or a
\* payload that is no data-change notification.
Undeliverable(msg) ==
    \/ msg.Error
    \/ msg.SubscriptionID # "own"
    \/ msg.Value # "DataChange"

\* C17: the pump's step on such a notification reports one error to the
\* error handler (when one is installed), hands nothing to the consumer,
\* leaves delivered and dropped as they were and returns to the select for
\* the next notification.
C17_UndeliverableOnlyReported ==
    [][(pump[1].pc = "check" /\ pump'[1] # pump[1] /\ Undeliverable(pump[1].msg))
          => /\ errHandlerCB => Len(errLog'[1]) = Len(errLog[1]) + 1
             /\ sentLog'[1] = sentLog[1]
             /\ delivered'[1] = delivered[1]
             /\ dropped'[1] = dropped[1]
             /\ pump'[1].pc = "select"]_vars

\* Thread t is inside a mutation of subscription s: between taking s.mu and
\* its return, its RPC included.
InMutation(t, s) ==
    /\ call[t].s = s
    /\ pc[t] \in {"add_alloc", "add_rpc", "add_commit", "rm_loop", "rm_rpc",
                  "mod_rpc", "set_rpc"}

\* C18: at any time at most one goroutine is inside a mutation of a
\* subscription, so at most one of Monitor, Unmonitor, ModifyMonitoredItems
\* and SetMonitoringMode is in flight for it, and the pump's lookup of a
\* handle never happens while a goroutine is inside one.
C18_OneMutationAtATime ==
    /\ [](\A s \in Subs : Cardinality({t \in Threads : InMutation(t, s)}) <= 1)
    /\ [][(pump[1].pc = "lookup" /\ pump'[1].pc = "deliver")
             => \A t \in Threads : ~InMutation(t, 1)]_vars

\* One goroutine waits for the reply to Monitor while the other has scanned
\* the items and waits for s.mu, and the pump waits to look a handle up.
C18_Witness_OthersWait ==
    /\ pc[1] = "add_rpc"
    /\ pc[2] \in {"rm_enter", "set_enter"}
    /\ call[1].s = 1 /\ call[2].s = 1
    /\ pump[1].pc = "lookup"

\* C19: no goroutine reads itemLookup, the scans of RemoveNodeIDs and
\* SetMonitoringModeForNodeIDs included, while another goroutine is inside
\* an AddMonitorItems or RemoveMonitorItems on the same subscription.
C19_NoScanDuringMutation ==
    [][\A t \in Threads :
          (pc[t] = "idle" /\ pc'[t] \in {"rm_enter", "set_enter"})
             => \A u \in Threads \ {t} : ~InMutation(u, call'[t].s)]_vars

\* The next step of the mutation thread t is in can be taken.
CanStep(t) ==
    IF pc[t] = "rm_enter" THEN ENABLED RemoveEnter(t)
    ELSE IF pc[t] = "rm_loop" THEN ENABLED RemoveStep(t)
    ELSE IF pc[t] = "rm_rpc" THEN ENABLED RemoveRPC(t)
    ELSE IF pc[t] = "set_enter" THEN ENABLED SetEnter(t)
    ELSE IF pc[t] = "set_rpc" THEN ENABLED SetRPC(t)
    ELSE FALSE

\* Whoever holds s.mu of subscription s is a caller that can take its step.
HolderCanStep(s) == mu[s] \in Threads /\ CanStep(mu[s])

\* C20: the pump holds no lock while it delivers, so s.mu is free or held by
\* a caller; a call under way, the one made by the callback included, can
\* take its next step or waits for s.mu held by a call that can; and the
\* pump can look up and deliver, or waits for such a call: nobody waits for
\* a lock that is never released.
C20_PumpAndMutationsNeverDeadlock ==
    /\ mu[1] \in Threads \cup {NoThread}
    /\ \A t \in Threads :
          pc[t] # "idle" => CanStep(t) \/ (mu[call[t].s] # t /\ HolderCanStep(call[t].s))
    /\ pump[1].pc = "lookup" => ENABLED PumpLookup(1) \/ HolderCanStep(1)
    /\ pump[1].pc = "deliver" => ENABLED CallbackReturn(1) \/ pc[1] # "idle"

\* The callback has called RemoveNodeIDs and is inside RemoveMonitorItems,
\* holding s.mu and waiting for the reply to Unmonitor, while the pump is
\* still in the delivery and another goroutine waits for s.mu.
C20_Witness_CallbackMutates ==
    /\ mode[1] = "cb"
    /\ pump[1].pc = "deliver"
    /\ pc[1] = "rm_rpc"
    /\ mu[1] = 1
    /\ pc[2] = "rm_enter"

ModeOps == {"modify", "setmode", "setnodes"}

\* Thread t takes this step: it starts a call, moves in one, or returns.
Moves(t) == pc'[t] # pc[t] \/ call'[t] # call[t] \/ lastCall'.by = t

\* Thread t is in a call of ModeOps before, during or at the end of the step.
InModeCall(t) ==
    \/ call[t].op \in ModeOps
    \/ call'[t].op \in ModeOps
    \/ lastCall'.by = t /\ lastCall'.op \in ModeOps

\* C22: ModifyMonitorItems, SetMonitoringMode and SetMonitoringModeForNodeIDs
\* never change handles, itemLookup or the handle counter: no step of such a
\* call writes one of them, and when the call returns, with an error or
\* without, both indices and Subscribed() are what they were when it took
\* the lock.
C22_ModeChangesKeepIndices ==
    /\ [](lastCall.op \in ModeOps =>
            /\ lastCall.postH = lastCall.preH
            /\ lastCall.postI = lastCall.preI
            /\ Count(lastCall.postH) = Count(lastCall.preH))
    /\ [][\A t \in Threads :
            (Moves(t) /\ InModeCall(t)) =>
                UNCHANGED <<handles, itemLookup, nextClientHandle>>]_vars

\* ModifyMonitorItems on a subscription of two items has sent its RPC and
\* returned a bad status.
C22_Witness_FailedModifyOfTwo ==
    /\ lastCall.op = "modify"
    /\ lastCall.err = "status"
    /\ lastCall.rpcs = 1
    /\ Count(lastCall.preI) = 2

\* The mutations that send their batch whenever their list is not empty.
AlwaysSending == {"add", "modify", "setmode"}

\* C23: a mutation called with an empty list returns nil, sends no RPC,
\* allocates no handle and leaves both indices as they were; and no call of a
\* mutation sends more than one RPC: one that reaches the transport sends
\* exactly one batch, as does every AddMonitorItems, ModifyMonitorItems and
\* SetMonitoringMode call with a list that is not empty.
C23_EmptyListIsNoOpAndOneBatchPerCall ==
    /\ []((lastCall.op \in Mutations /\ lastCall.n = 0) =>
            /\ lastCall.err = "nil"
            /\ lastCall.rpcs = 0
            /\ lastCall.hs = <<>>
            /\ lastCall.postH = lastCall.preH
            /\ lastCall.postI = lastCall.preI)
    /\ [](/\ lastCall.rpcs <= 1
          /\ \A t \in Threads : call[t].rpcs <= 1
          /\ (lastCall.op \in AlwaysSending /\ lastCall.n > 0) => lastCall.rpcs = 1)
    /\ [][(lastCall'.op \in Mutations /\ lastCall'.n = 0) =>
            UNCHANGED <<handles, itemLookup, nextClientHandle, allocLog,
                        serverItemID>>]_vars

\* AddMonitorItems with no request has just returned on a subscription that
\* monitors an item.
C23_Witness_EmptyAddOnWatchedSubscription ==
    /\ lastCall.op = "add"
    /\ lastCall.n = 0
    /\ Count(lastCall.preI) > 0

====
